---- MODULE Spec2Model ----
(***************************************************************************)
(* Model of the NFQUEUE packet I/O layer of OpenGFW (io/nfqueue.go):       *)
(* firewall rule generation in the nftables and iptables dialects, the     *)
(* session life cycle (NewNFQueuePacketIO, Register, Close), the queue     *)
(* event dispatcher with its attribute sanity check, and SetVerdict.       *)
(*                                                                         *)
(* Conventions.  A Go pointer or optional value is a sequence of length 0  *)
(* (nil) or 1.  Rule text is kept as the sequence of its tokens, numbers   *)
(* printed by %d / strconv.Itoa are the strings ToString gives.  The       *)
(* kernel side (netfilter hooks, connection marks, the queue) is the       *)
(* environment the session talks to.                                       *)
(***************************************************************************)
EXTENDS Integers, Sequences, FiniteSets, TLC

VARIABLES
    n,          \* the nfqueuePacketIO object: <<>> before NewNFQueuePacketIO returns one
    handle,     \* the nfqueue.Nfqueue handle: "none", "open" or "closed"
    registered, \* TRUE while the hook/error functions are bound to the kernel queue
    nft,        \* nftables backend: the loaded tables, as a sequence of table specs
    ipt,        \* iptables backends: family -> the ordered rules of its filter table
    pending,    \* kernel queue: packet id -> connection id, for packets awaiting a verdict
    inq,        \* ids of queued packets whose event has not yet reached the hook function
    connmark,   \* kernel conntrack: connection id -> connection mark
    nextId,     \* the packet id the kernel queue assigns next
    held,       \* packet objects the callback received and has not yet given a verdict
    streamed,   \* connection id -> the stream verdicts the kernel has taken for its packets
    last,       \* observable trace of the last operation
    reg         \* goroutine -> where its Register call stands, and the installs it ran

vars == <<n, handle, registered, nft, ipt, pending, inq, connmark, nextId, held, streamed, last, reg>>

-----------------------------------------------------------------------------
(* Constants of the package.                                               *)

nfqueueNum == 100

nfqueueConnMarkAccept == 1001

nfqueueConnMarkDrop == 1002

nftFamily == "inet"

nftTable == "opengfw"

\* nfqueue.NfDrop and nfqueue.NfAccept of the go-nfqueue library
NfDrop == 0

NfAccept == 1

-----------------------------------------------------------------------------
(* Bounds of the model.                                                    *)

\* packet ids the kernel queue hands out in one run
MaxPackets == 1

\* tracked connections of each family and protocol
MaxConns == 1

\* pieces of a connection-tracking blob given to the decoder
MaxAttrs == 2

Hooks == {"input", "output", "forward"}

\* goroutines that call Register on the session at the same time
Callers == {"g1", "g2"}

Families == {"v4", "v6"}

Protos == {"tcp", "udp"}

\* connection ids; the family and the protocol of a connection are fixed
Conns == 1..(4 * MaxConns)

ConnFamily(c) == IF c % 2 = 1 THEN "v4" ELSE "v6"

ConnProto(c) == IF ((c - 1) \div 2) % 2 = 0 THEN "tcp" ELSE "udp"

-----------------------------------------------------------------------------
(* Rule generation.                                                        *)

ErrRstLocal == "tcp rst is not supported in local mode"

\* the four-step rule body of one nftables chain
NftChainRules(rst) ==
    <<  <<"ct", "mark", "$ACCEPT_CTMARK", "counter", "accept">> >>
    \o (IF rst
        THEN << <<"ip", "protocol", "tcp", "ct", "mark", "$DROP_CTMARK",
                  "counter", "reject", "with", "tcp", "reset">> >>
        ELSE << >>)
    \o << <<"ct", "mark", "$DROP_CTMARK", "counter", "drop">>,
          <<"counter", "queue", "num", "$QUEUE_NUM", "bypass">> >>

NftChainHeader(hook) ==
    <<"type", "filter", "hook", hook, "priority", "filter", ";", "policy", "accept", ";">>

NftChains(local, rst) ==
    IF local
    THEN << [Chain |-> "INPUT", Header |-> NftChainHeader("input"), Rules |-> NftChainRules(rst)],
            [Chain |-> "OUTPUT", Header |-> NftChainHeader("output"), Rules |-> NftChainRules(rst)] >>
    ELSE << [Chain |-> "FORWARD", Header |-> NftChainHeader("forward"), Rules |-> NftChainRules(rst)] >>

\* generateNftRules: <<>> is the nil table returned with the error
generateNftRules(local, rst) ==
    IF local /\ rst
    THEN [err |-> <<ErrRstLocal>>, table |-> << >>]
    ELSE [err |-> << >>,
          table |-> << [Family  |-> nftFamily,
                        Table   |-> nftTable,
                        Defines |-> << <<"define", "ACCEPT_CTMARK", "=", ToString(nfqueueConnMarkAccept)>>,
                                       <<"define", "DROP_CTMARK", "=", ToString(nfqueueConnMarkDrop)>>,
                                       <<"define", "QUEUE_NUM", "=", ToString(nfqueueNum)>> >>,
                        Chains  |-> NftChains(local, rst)] >>]

\* the rules of one chain with the reset rule after the drop rule
IptChainRulesResetLast(chain, rst) ==
    << [Table |-> "filter", Chain |-> chain,
        RuleSpec |-> <<"-m", "connmark", "--mark", ToString(nfqueueConnMarkAccept), "-j", "ACCEPT">>],
       [Table |-> "filter", Chain |-> chain,
        RuleSpec |-> <<"-m", "connmark", "--mark", ToString(nfqueueConnMarkDrop), "-j", "DROP">>] >>
    \o (IF rst
        THEN << [Table |-> "filter", Chain |-> chain,
                 RuleSpec |-> <<"-p", "tcp", "-m", "connmark", "--mark", ToString(nfqueueConnMarkDrop),
                                "-j", "REJECT", "--reject-with", "tcp-reset">>] >>
        ELSE << >>)
    \o << [Table |-> "filter", Chain |-> chain,
           RuleSpec |-> <<"-j", "NFQUEUE", "--queue-num", ToString(nfqueueNum), "--queue-bypass">>] >>

\* the rules generateIptRules appends for one chain
IptChainRules(chain, rst) ==
    << [Table |-> "filter", Chain |-> chain,
        RuleSpec |-> <<"-m", "connmark", "--mark", ToString(nfqueueConnMarkAccept), "-j", "ACCEPT">>] >>
    \o (IF rst
        THEN << [Table |-> "filter", Chain |-> chain,
                 RuleSpec |-> <<"-p", "tcp", "-m", "connmark", "--mark", ToString(nfqueueConnMarkDrop),
                                "-j", "REJECT", "--reject-with", "tcp-reset">>] >>
        ELSE << >>)
    \o << [Table |-> "filter", Chain |-> chain,
           RuleSpec |-> <<"-m", "connmark", "--mark", ToString(nfqueueConnMarkDrop), "-j", "DROP">>],
          [Table |-> "filter", Chain |-> chain,
           RuleSpec |-> <<"-j", "NFQUEUE", "--queue-num", ToString(nfqueueNum), "--queue-bypass">>] >>

IptChains(local) == IF local THEN <<"INPUT", "OUTPUT">> ELSE <<"FORWARD">>

RECURSIVE IptRulesOf(_, _, _)
IptRulesOf(chains, i, rst) ==
    IF i > Len(chains) THEN << >>
    ELSE IptChainRules(chains[i], rst) \o IptRulesOf(chains, i + 1, rst)

\* generateIptRules that attaches the local policy to the INPUT chain only
generateIptRulesInputOnly(local, rst) ==
    IF local /\ rst
    THEN [err |-> <<ErrRstLocal>>, rules |-> << >>]
    ELSE [err |-> << >>, rules |-> IptRulesOf(IF local THEN <<"INPUT">> ELSE <<"FORWARD">>, 1, rst)]

\* generateIptRules: <<>> is the nil slice returned with the error
generateIptRules(local, rst) ==
    IF local /\ rst
    THEN [err |-> <<ErrRstLocal>>, rules |-> << >>]
    ELSE [err |-> << >>, rules |-> IptRulesOf(IptChains(local), 1, rst)]

-----------------------------------------------------------------------------
(* What the installed rules do to a packet.  A packet at a hook is         *)
(* [hook, fam, proto, mark]; rules are tried in order and the first one    *)
(* whose matches all hold decides.  A disposition is [v, q, bypass]: v is  *)
(* "accept", "reject", "drop", "queue" or "policy" (end of chain, the      *)
(* chain policy accepts), q the queue number of a queue statement.         *)

Disp(v) == [v |-> v, q |-> "", bypass |-> FALSE]

NoMatch == Disp("continue")

\* nft: a $NAME token stands for the value of the define of that name
NftResolve(tok, defines) ==
    IF \E i \in 1..Len(defines) : "$" \o defines[i][2] = tok
    THEN defines[CHOOSE i \in 1..Len(defines) : "$" \o defines[i][2] = tok][4]
    ELSE tok

\* nft: evaluate the statements of one loaded rule from token i on
RECURSIVE NftRule(_, _, _)
NftRule(toks, i, pkt) ==
    IF i > Len(toks) THEN NoMatch
    ELSE CASE toks[i] = "ip" /\ i + 2 <= Len(toks) /\ toks[i + 1] = "protocol" ->
                \* an ip header expression: IPv4 packets only, also in the inet family
                IF pkt.fam = "v4" /\ pkt.proto = toks[i + 2]
                THEN NftRule(toks, i + 3, pkt) ELSE NoMatch
           [] toks[i] = "ct" /\ i + 2 <= Len(toks) /\ toks[i + 1] = "mark" ->
                IF ToString(pkt.mark) = toks[i + 2]
                THEN NftRule(toks, i + 3, pkt) ELSE NoMatch
           [] toks[i] = "counter" -> NftRule(toks, i + 1, pkt)
           [] toks[i] = "accept" -> Disp("accept")
           [] toks[i] = "drop" -> Disp("drop")
           [] toks[i] = "reject" -> Disp("reject")
           [] toks[i] = "queue" /\ i + 2 <= Len(toks) /\ toks[i + 1] = "num" ->
                [v |-> "queue", q |-> toks[i + 2],
                 bypass |-> (i + 3 <= Len(toks) /\ toks[i + 3] = "bypass")]
           [] OTHER -> NoMatch

RECURSIVE NftChain(_, _, _)
NftChain(rules, i, pkt) ==
    IF i > Len(rules) THEN Disp("policy")
    ELSE LET d == NftRule(rules[i], 1, pkt)
         IN  IF d.v # "continue" THEN d ELSE NftChain(rules, i + 1, pkt)

NftHookOf(chain) == chain.Header[4]

\* the disposition the loaded nftables tables give a packet (inet: both families)
NftDisposition(tables, pkt) ==
    IF \E t \in 1..Len(tables) : \E c \in 1..Len(tables[t].Chains) :
            NftHookOf(tables[t].Chains[c]) = pkt.hook
    THEN LET t == CHOOSE t \in 1..Len(tables) : \E c \in 1..Len(tables[t].Chains) :
                        NftHookOf(tables[t].Chains[c]) = pkt.hook
             c == CHOOSE c \in 1..Len(tables[t].Chains) :
                        NftHookOf(tables[t].Chains[c]) = pkt.hook
         IN  NftChain(tables[t].Chains[c].Rules, 1, pkt)
    ELSE Disp("policy")

\* iptables: evaluate the matches and the target of one rule from token i on
RECURSIVE IptRule(_, _, _)
IptRule(toks, i, pkt) ==
    IF i > Len(toks) THEN NoMatch
    ELSE CASE toks[i] = "-p" /\ i + 1 <= Len(toks) ->
                IF pkt.proto = toks[i + 1] THEN IptRule(toks, i + 2, pkt) ELSE NoMatch
           [] toks[i] = "-m" /\ i + 1 <= Len(toks) -> IptRule(toks, i + 2, pkt)
           [] toks[i] = "--mark" /\ i + 1 <= Len(toks) ->
                IF ToString(pkt.mark) = toks[i + 1] THEN IptRule(toks, i + 2, pkt) ELSE NoMatch
           [] toks[i] = "-j" /\ i + 1 <= Len(toks) ->
                CASE toks[i + 1] = "ACCEPT" -> Disp("accept")
                  [] toks[i + 1] = "DROP" -> Disp("drop")
                  [] toks[i + 1] = "REJECT" -> Disp("reject")
                  [] toks[i + 1] = "NFQUEUE" /\ i + 3 <= Len(toks) /\ toks[i + 2] = "--queue-num" ->
                        [v |-> "queue", q |-> toks[i + 3],
                         bypass |-> (i + 4 <= Len(toks) /\ toks[i + 4] = "--queue-bypass")]
                  [] OTHER -> NoMatch
           [] OTHER -> NoMatch

IptChainOf(hook) ==
    CASE hook = "input" -> "INPUT"
      [] hook = "output" -> "OUTPUT"
      [] hook = "forward" -> "FORWARD"

RECURSIVE IptChain(_, _, _)
IptChain(rules, i, pkt) ==
    IF i > Len(rules) THEN Disp("policy")
    ELSE LET d == IF rules[i].Table = "filter" /\ rules[i].Chain = IptChainOf(pkt.hook)
                  THEN IptRule(rules[i].RuleSpec, 1, pkt) ELSE NoMatch
         IN  IF d.v # "continue" THEN d ELSE IptChain(rules, i + 1, pkt)

\* the disposition the iptables (v4) or ip6tables (v6) filter table gives a packet
IptDisposition(tabs, pkt) == IptChain(tabs[pkt.fam], 1, pkt)

-----------------------------------------------------------------------------
(* The backends.                                                           *)

\* nft replaces $NAME by the define's value when it loads the text
RECURSIVE NftResolveRule(_, _, _)
NftResolveRule(toks, i, defines) ==
    IF i > Len(toks) THEN << >>
    ELSE <<NftResolve(toks[i], defines)>> \o NftResolveRule(toks, i + 1, defines)

RECURSIVE NftResolveRules(_, _, _)
NftResolveRules(rules, i, defines) ==
    IF i > Len(rules) THEN << >>
    ELSE <<NftResolveRule(rules[i], 1, defines)>> \o NftResolveRules(rules, i + 1, defines)

NftHasTable(tables, family, table) ==
    \E t \in 1..Len(tables) : tables[t].Family = family /\ tables[t].Table = table

NftHasChain(chains, name) == \E c \in 1..Len(chains) : chains[c].Chain = name

\* chains of a loaded table after the chains of a text are added to it:
\* rules of a chain that exists are appended to it, a new chain is appended
RECURSIVE NftAddChains(_, _, _, _)
NftAddChains(chains, new, i, defines) ==
    IF i > Len(new) THEN chains
    ELSE LET rs == NftResolveRules(new[i].Rules, 1, defines)
             merged ==
                IF NftHasChain(chains, new[i].Chain)
                THEN [c \in 1..Len(chains) |->
                        IF chains[c].Chain = new[i].Chain
                        THEN [chains[c] EXCEPT !.Rules = @ \o rs]
                        ELSE chains[c]]
                ELSE Append(chains, [Chain |-> new[i].Chain, Header |-> new[i].Header, Rules |-> rs])
         IN  NftAddChains(merged, new, i + 1, defines)

\* an nft -f that is not atomic: a failing load leaves the first chain loaded
nftAddNotAtomic(tables, spec, ok) ==
    LET chains == IF ok THEN spec.Chains ELSE SubSeq(spec.Chains, 1, 1) IN
    [err |-> IF ok THEN << >> ELSE <<"nft -f">>,
     tables |->
        IF NftHasTable(tables, spec.Family, spec.Table)
        THEN [t \in 1..Len(tables) |->
                IF tables[t].Family = spec.Family /\ tables[t].Table = spec.Table
                THEN [tables[t] EXCEPT !.Chains = NftAddChains(@, chains, 1, spec.Defines)]
                ELSE tables[t]]
        ELSE Append(tables, [Family |-> spec.Family, Table |-> spec.Table,
                             Chains |-> NftAddChains(<< >>, chains, 1, spec.Defines)])]

\* nftAdd: `nft -f -` on the text of the table spec; ok says whether the tool succeeds
\* (the load is atomic: a failed load changes nothing)
nftAdd(tables, spec, ok) ==
    IF ~ok THEN [err |-> <<"nft -f">>, tables |-> tables]
    ELSE [err |-> << >>,
          tables |->
            IF NftHasTable(tables, spec.Family, spec.Table)
            THEN [t \in 1..Len(tables) |->
                    IF tables[t].Family = spec.Family /\ tables[t].Table = spec.Table
                    THEN [tables[t] EXCEPT !.Chains = NftAddChains(@, spec.Chains, 1, spec.Defines)]
                    ELSE tables[t]]
            ELSE Append(tables, [Family |-> spec.Family, Table |-> spec.Table,
                                 Chains |-> NftAddChains(<< >>, spec.Chains, 1, spec.Defines)])]

\* nftDelete: `nft delete table family table`; fails when there is no such table
nftDelete(tables, family, table, ok) ==
    IF ~ok \/ ~NftHasTable(tables, family, table)
    THEN [err |-> <<"nft delete table">>, tables |-> tables]
    ELSE [err |-> << >>,
          tables |-> SelectSeq(tables, LAMBDA t : ~(t.Family = family /\ t.Table = table))]

\* setupNft; addOk / delOk are the outcomes of the nft tool
setupNft(tables, local, rst, remove, addOk, delOk) ==
    LET g == generateNftRules(local, rst) IN
    IF g.err # << >> THEN [err |-> g.err, tables |-> tables, ext |-> << >>]
    ELSE LET del == nftDelete(tables, nftFamily, nftTable, delOk) IN
         IF remove
         THEN [err |-> del.err, tables |-> del.tables, ext |-> <<"nft delete table">>]
         ELSE LET add == nftAdd(del.tables, g.table[1], addOk)
              IN  [err |-> add.err, tables |-> add.tables, ext |-> <<"nft delete table", "nft -f">>]

IptExists(rules, r) == \E i \in 1..Len(rules) : rules[i] = r

\* IPTables.AppendUnique
IptAppendUnique(rules, r) == IF IptExists(rules, r) THEN rules ELSE Append(rules, r)

\* IPTables.DeleteIfExists: iptables -D removes the first rule that matches
IptDeleteIfExists(rules, r) ==
    IF ~IptExists(rules, r) THEN rules
    ELSE LET k == CHOOSE i \in 1..Len(rules) : rules[i] = r /\ \A j \in 1..(i - 1) : rules[j] # r
         IN  [i \in 1..(Len(rules) - 1) |-> IF i < k THEN rules[i] ELSE rules[i + 1]]

\* the k-th operation of a batch is on rule (k+1) \div 2, for v4 (k odd) then v6 (k even)
IptOpFamily(k) == IF k % 2 = 1 THEN "v4" ELSE "v6"

RECURSIVE JoinTokens(_, _)
JoinTokens(toks, i) ==
    IF i > Len(toks) THEN "" ELSE " " \o toks[i] \o JoinTokens(toks, i + 1)

\* one library call of a batch, as it shows in the trace: the method, the handle
\* it is called on, and its arguments r.Table, r.Chain, r.RuleSpec...
IptCall(remove, f, r) ==
    (IF remove THEN "DeleteIfExists" ELSE "AppendUnique") \o " ipt" \o f
        \o " " \o r.Table \o " " \o r.Chain \o JoinTokens(r.RuleSpec, 1)

\* a batch that notes the failure and goes on with the next operation
RECURSIVE iptsBatchKeepsGoing(_, _, _, _, _)
iptsBatchKeepsGoing(tabs, rules, k, failAt, remove) ==
    IF k > 2 * Len(rules) THEN [err |-> << >>, tabs |-> tabs, calls |-> << >>]
    ELSE LET r == rules[(k + 1) \div 2]
             f == IptOpFamily(k)
             rest == iptsBatchKeepsGoing(
                        IF k = failAt THEN tabs
                        ELSE [tabs EXCEPT ![f] = IF remove THEN IptDeleteIfExists(@, r)
                                                           ELSE IptAppendUnique(@, r)],
                        rules, k + 1, failAt, remove)
         IN  [rest EXCEPT !.calls = <<IptCall(remove, f, r)>> \o @,
                          !.err = IF k = failAt THEN <<"iptables">> ELSE @]

\* the loops of iptsBatchAppendUnique / iptsBatchDeleteIfExists from operation k on;
\* failAt is the operation that fails (0: none)
RECURSIVE iptsBatch(_, _, _, _, _)
iptsBatch(tabs, rules, k, failAt, remove) ==
    IF k > 2 * Len(rules) THEN [err |-> << >>, tabs |-> tabs, calls |-> << >>]
    ELSE LET r == rules[(k + 1) \div 2]
             f == IptOpFamily(k)
         IN  IF k = failAt
             THEN [err |-> <<"iptables">>, tabs |-> tabs, calls |-> <<IptCall(remove, f, r)>>]
             ELSE LET rest == iptsBatch([tabs EXCEPT ![f] = IF remove THEN IptDeleteIfExists(@, r)
                                                                      ELSE IptAppendUnique(@, r)],
                                        rules, k + 1, failAt, remove)
                  IN  [rest EXCEPT !.calls = <<IptCall(remove, f, r)>> \o @]

iptsBatchAppendUnique(tabs, rules, failAt) == iptsBatch(tabs, rules, 1, failAt, FALSE)

iptsBatchDeleteIfExists(tabs, rules, failAt) == iptsBatch(tabs, rules, 1, failAt, TRUE)

\* setupIpt
setupIpt(tabs, local, rst, remove, failAt) ==
    LET g == generateIptRules(local, rst) IN
    IF g.err # << >> THEN [err |-> g.err, tabs |-> tabs, ext |-> << >>]
    ELSE LET b == IF remove THEN iptsBatchDeleteIfExists(tabs, g.rules, failAt)
                  ELSE iptsBatchAppendUnique(tabs, g.rules, failAt)
         IN  [err |-> b.err, tabs |-> b.tabs, ext |-> b.calls]

\* operations a batch for this policy can fail at (0: none fails)
IptFailPoints(local, rst) == 0..(2 * Len(generateIptRules(local, rst).rules))

\* netfilter runs the nftables chain and the iptables chain of the hook: a packet
\* one of them drops, rejects or queues is gone; otherwise the other decides
Disposition(tables, tabs, pkt) ==
    LET a == NftDisposition(tables, pkt)
        b == IptDisposition(tabs, pkt)
    IN  IF a.v \in {"drop", "reject", "queue"} THEN a
        ELSE IF b.v = "policy" THEN a ELSE b

-----------------------------------------------------------------------------
(* Connection-tracking attribute decoding.                                 *)

\* netlink attributes are aligned to 4 bytes; the header is 4 bytes
nlaHeaderLen == 4

nlaAlign(len) == ((len + 3) \div 4) * 4

\* CTA_ID
ctaID == 12

Slice(b, from, to) == [k \in 1..(to - from + 1) |-> b[from + k - 1]]

\* netlink.UnmarshalAttributes from byte i on (length and type in host order,
\* little endian); zero-length attributes are skipped
RECURSIVE UnmarshalAttributes(_, _, _)
UnmarshalAttributes(b, i, attrs) ==
    IF i > Len(b) THEN [err |-> FALSE, attrs |-> attrs]
    ELSE IF Len(b) - i + 1 < nlaHeaderLen THEN [err |-> TRUE, attrs |-> << >>]
    ELSE LET length == b[i] + 256 * b[i + 1]
             type   == b[i + 2] + 256 * b[i + 3]
         IN  IF length > Len(b) - i + 1 THEN [err |-> TRUE, attrs |-> << >>]
             ELSE IF length = 0 THEN UnmarshalAttributes(b, i + nlaHeaderLen, attrs)
             ELSE IF length < nlaHeaderLen THEN [err |-> TRUE, attrs |-> << >>]
             ELSE UnmarshalAttributes(b, i + nlaAlign(length),
                        Append(attrs, [Type |-> type,
                                       Data |-> Slice(b, i + nlaHeaderLen, i + length - 1)]))

\* binary.BigEndian.Uint32
BigEndianUint32(d) == ((d[1] * 256 + d[2]) * 256 + d[3]) * 256 + d[4]

\* ctIDFromCtBytes: the id, or a run-time panic when the CTA_ID attribute holds
\* fewer than 4 bytes (BigEndian.Uint32 indexes d[3])
ctIDFromCtBytes(ct) ==
    LET u == UnmarshalAttributes(ct, 1, << >>) IN
    IF u.err THEN [panic |-> FALSE, id |-> 0]
    ELSE IF \E k \in 1..Len(u.attrs) : u.attrs[k].Type = ctaID
    THEN LET k == CHOOSE k \in 1..Len(u.attrs) :
                    u.attrs[k].Type = ctaID /\ \A j \in 1..(k - 1) : u.attrs[j].Type # ctaID
         IN  IF Len(u.attrs[k].Data) < 4 THEN [panic |-> TRUE, id |-> 0]
             ELSE [panic |-> FALSE, id |-> BigEndianUint32(u.attrs[k].Data)]
    ELSE [panic |-> FALSE, id |-> 0]

\* the kernel's conntrack id of connection c
CtIdOf(c) == c * 256 + 42

\* the NFQA_CT blob the kernel sends for a packet of connection c:
\* CTA_STATUS (type 3), then CTA_ID with the id in network byte order
CtBlob(c) == <<8, 0, 3, 0, 0, 0, 0, 14, 8, 0, ctaID, 0, 0, 0, c, 42>>

-----------------------------------------------------------------------------
(* The session.                                                            *)

nfqueueDefaultQueueSize == 128

\* 20 is the minimum possible size of an IP packet
minIPPacketLen == 20

Verdicts == {"VerdictAccept", "VerdictAcceptModify", "VerdictAcceptStream",
             "VerdictDrop", "VerdictDropStream"}

\* a Verdict value that is none of the five
VerdictOther == "VerdictOther"

errNotNFQueuePacket == "not an NFQueue packet"

okBoolToInt(ok) == IF ok THEN 0 ELSE 1

\* trace of an operation: what it was given (ev), what it returned (err, ret),
\* the external calls (ext), kernel verdict calls (kcalls) and callback
\* invocations (cb) it made, and for a packet the firewall's disposition
Trace(op, ev) ==
    [op |-> op, ev |-> ev, err |-> << >>, ret |-> 0, ext |-> << >>,
     kcalls |-> << >>, cb |-> << >>, disp |-> Disp("none"), queued |-> FALSE, panic |-> FALSE]

\* packetAttributeSanityCheck without the length test: only a missing payload is dropped
packetAttributeSanityCheckNoLength(a, local) ==
    IF a.PacketID = << >> THEN [ok |-> FALSE, verdict |-> -1]
    ELSE IF a.Payload = << >> THEN [ok |-> FALSE, verdict |-> NfDrop]
    ELSE IF a.Ct = << >>
         THEN IF local THEN [ok |-> FALSE, verdict |-> NfAccept]
              ELSE [ok |-> FALSE, verdict |-> NfDrop]
    ELSE [ok |-> TRUE, verdict |-> -1]

\* packetAttributeSanityCheck that forgets the session's mode
packetAttributeSanityCheckNoMode(a, local) ==
    IF a.PacketID = << >> THEN [ok |-> FALSE, verdict |-> -1]
    ELSE IF a.Payload = << >> \/ a.Payload[1] < minIPPacketLen THEN [ok |-> FALSE, verdict |-> NfDrop]
    ELSE IF a.Ct = << >> THEN [ok |-> FALSE, verdict |-> NfDrop]
    ELSE [ok |-> TRUE, verdict |-> -1]

\* packetAttributeSanityCheck on attribute a of a session in mode local
packetAttributeSanityCheck(a, local) ==
    IF a.PacketID = << >> THEN [ok |-> FALSE, verdict |-> -1]
    ELSE IF a.Payload = << >> \/ a.Payload[1] < minIPPacketLen THEN [ok |-> FALSE, verdict |-> NfDrop]
    ELSE IF a.Ct = << >>
         THEN IF local THEN [ok |-> FALSE, verdict |-> NfAccept]
              ELSE [ok |-> FALSE, verdict |-> NfDrop]
    ELSE [ok |-> TRUE, verdict |-> -1]

\* a kernel verdict call; mark and data are optional
KCall(fn, id, verdict, mark, data) ==
    [fn |-> fn, id |-> id, verdict |-> verdict, mark |-> mark, data |-> data]

\* the kernel's answer to a verdict call: the packet must be awaiting a verdict
\* on an open handle
KCallOk(call) == handle = "open" /\ call.id \in DOMAIN pending

PendingAfter(calls) ==
    [i \in {j \in DOMAIN pending : ~\E k \in 1..Len(calls) : KCallOk(calls[k]) /\ calls[k].id = j}
        |-> pending[i]]

\* a verdict call with a mark writes it to the packet's connection
ConnmarkAfter(calls) ==
    [c \in Conns |->
        IF \E k \in 1..Len(calls) :
                KCallOk(calls[k]) /\ calls[k].mark # << >> /\ pending[calls[k].id] = c
        THEN LET k == CHOOSE k \in 1..Len(calls) :
                        KCallOk(calls[k]) /\ calls[k].mark # << >> /\ pending[calls[k].id] = c
             IN  calls[k].mark[1]
        ELSE connmark[c]]

\* a hook function that issues the synthetic verdict and falls through to the callback
HookFuncFallsThrough(a, local, cbRet) ==
    LET chk == packetAttributeSanityCheck(a, local) IN
    IF a.PacketID = << >>
    THEN [kcalls |-> << >>, cb |-> << >>, ret |-> 0, panic |-> FALSE]
    ELSE [kcalls |-> IF chk.ok THEN << >>
                     ELSE <<KCall("SetVerdict", a.PacketID[1], chk.verdict, << >>, << >>)>>,
          cb |-> << [pkt |-> << [kind |-> "nfqueue", id |-> a.PacketID[1],
                                streamID |-> IF a.Ct = << >> THEN 0 ELSE ctIDFromCtBytes(a.Ct[1]).id,
                                data |-> IF a.Payload = << >> THEN 0 ELSE a.Payload[1]] >>,
                     err |-> << >>] >>,
          ret |-> okBoolToInt(cbRet), panic |-> FALSE]

\* the HookFunc Register hands to RegisterWithErrorFunc, on attribute a;
\* cbRet is what the callback returns if it is invoked
HookFunc(a, local, cbRet) ==
    LET chk == packetAttributeSanityCheck(a, local) IN
    IF ~chk.ok
    THEN [kcalls |-> IF a.PacketID # << >>
                     THEN <<KCall("SetVerdict", a.PacketID[1], chk.verdict, << >>, << >>)>>
                     ELSE << >>,
          cb |-> << >>, ret |-> 0, panic |-> FALSE]
    ELSE LET ct == ctIDFromCtBytes(a.Ct[1]) IN
         IF ct.panic
         THEN [kcalls |-> << >>, cb |-> << >>, ret |-> 0, panic |-> TRUE]
         ELSE [kcalls |-> << >>,
               cb |-> << [pkt |-> << [kind |-> "nfqueue", id |-> a.PacketID[1],
                                     streamID |-> ct.id, data |-> a.Payload[1]] >>,
                          err |-> << >>] >>,
               ret |-> okBoolToInt(cbRet), panic |-> FALSE]

\* an error function that compares the error itself with ENOBUFS
ErrorFuncAnyENOBUFS(e, cbRet) ==
    IF e.errno = "ENOBUFS"
    THEN [cb |-> << >>, ret |-> 0]
    ELSE [cb |-> << [pkt |-> << >>, err |-> <<e>>] >>, ret |-> okBoolToInt(cbRet)]

\* the ErrorFunc Register hands to RegisterWithErrorFunc, on error e:
\* e.opErr says errors.As finds a *netlink.OpError, e.errno is its Err
ErrorFunc(e, cbRet) ==
    IF e.opErr /\ e.errno = "ENOBUFS"
    THEN [cb |-> << >>, ret |-> 0]
    ELSE [cb |-> << [pkt |-> << >>, err |-> <<e>>] >>, ret |-> okBoolToInt(cbRet)]

TransportErrors ==
    {[opErr |-> TRUE, errno |-> "ENOBUFS"], [opErr |-> TRUE, errno |-> "EPERM"],
     [opErr |-> FALSE, errno |-> "ENOBUFS"], [opErr |-> FALSE, errno |-> "EOF"]}

\* SetVerdict with the two stream marks exchanged
SetVerdictCallsSwappedMarks(p, v, newPacket) ==
    IF p.kind # "nfqueue" THEN << >>
    ELSE CASE v = "VerdictAccept" -> <<KCall("SetVerdict", p.id, NfAccept, << >>, << >>)>>
           [] v = "VerdictAcceptModify" ->
                <<KCall("SetVerdictModPacket", p.id, NfAccept, << >>, <<newPacket>>)>>
           [] v = "VerdictAcceptStream" ->
                <<KCall("SetVerdictWithConnMark", p.id, NfAccept, <<nfqueueConnMarkDrop>>, << >>)>>
           [] v = "VerdictDrop" -> <<KCall("SetVerdict", p.id, NfDrop, << >>, << >>)>>
           [] v = "VerdictDropStream" ->
                <<KCall("SetVerdictWithConnMark", p.id, NfDrop, <<nfqueueConnMarkAccept>>, << >>)>>
           [] OTHER -> << >>

\* SetVerdict without the type assertion on the packet
SetVerdictCallsUnchecked(p, v, newPacket) ==
    CASE v = "VerdictAccept" -> <<KCall("SetVerdict", p.id, NfAccept, << >>, << >>)>>
      [] v = "VerdictAcceptModify" ->
            <<KCall("SetVerdictModPacket", p.id, NfAccept, << >>, <<newPacket>>)>>
      [] v = "VerdictAcceptStream" ->
            <<KCall("SetVerdictWithConnMark", p.id, NfAccept, <<nfqueueConnMarkAccept>>, << >>)>>
      [] v = "VerdictDrop" -> <<KCall("SetVerdict", p.id, NfDrop, << >>, << >>)>>
      [] v = "VerdictDropStream" ->
            <<KCall("SetVerdictWithConnMark", p.id, NfDrop, <<nfqueueConnMarkDrop>>, << >>)>>
      [] OTHER -> << >>

\* the kernel call SetVerdict makes for packet p, verdict v and replacement newPacket:
\* a sequence of zero or one call
SetVerdictCalls(p, v, newPacket) ==
    IF p.kind # "nfqueue" THEN << >>
    ELSE CASE v = "VerdictAccept" -> <<KCall("SetVerdict", p.id, NfAccept, << >>, << >>)>>
           [] v = "VerdictAcceptModify" ->
                <<KCall("SetVerdictModPacket", p.id, NfAccept, << >>, <<newPacket>>)>>
           [] v = "VerdictAcceptStream" ->
                <<KCall("SetVerdictWithConnMark", p.id, NfAccept, <<nfqueueConnMarkAccept>>, << >>)>>
           [] v = "VerdictDrop" -> <<KCall("SetVerdict", p.id, NfDrop, << >>, << >>)>>
           [] v = "VerdictDropStream" ->
                <<KCall("SetVerdictWithConnMark", p.id, NfDrop, <<nfqueueConnMarkDrop>>, << >>)>>
           [] OTHER -> << >>

\* the error SetVerdict returns
SetVerdictErr(p, calls) ==
    IF p.kind # "nfqueue" THEN <<"ErrInvalidPacket: " \o errNotNFQueuePacket>>
    ELSE IF calls # << >> /\ ~KCallOk(calls[1]) THEN <<"netlink">>
    ELSE << >>

\* NewNFQueuePacketIO that returns without closing the handle when SetWriteBuffer fails
NewNFQueuePacketIOResultLeaksHandle(config, env) ==
    LET useIpt == ~env.nftOk
        fail(ext, h, e) == [err |-> <<e>>, ext |-> ext, handle |-> h, n |-> << >>]
        e1 == <<"nftCheck">>
        e2 == e1 \o (IF useIpt THEN <<"iptables.New v4", "iptables.New v6">> ELSE << >>)
                 \o <<"nfqueue.Open">>
        e3 == e2 \o (IF config.ReadBuffer > 0 THEN <<"SetReadBuffer">> ELSE << >>)
        e4 == e3 \o (IF config.WriteBuffer > 0 THEN <<"SetWriteBuffer">> ELSE << >>)
    IN  IF useIpt /\ ~env.ipt4Ok THEN fail(e1 \o <<"iptables.New v4">>, handle, "iptables v4")
        ELSE IF useIpt /\ ~env.ipt6Ok
             THEN fail(e1 \o <<"iptables.New v4", "iptables.New v6">>, handle, "iptables v6")
        ELSE IF ~env.openOk THEN fail(e2, handle, "nfqueue.Open")
        ELSE IF config.ReadBuffer > 0 /\ ~env.rbOk
             THEN fail(e3 \o <<"Nfqueue.Close">>, "closed", "SetReadBuffer")
        ELSE IF config.WriteBuffer > 0 /\ ~env.wbOk
             THEN fail(e4, "open", "SetWriteBuffer")
        ELSE [err |-> << >>, ext |-> e4, handle |-> "open",
              n |-> << [local |-> config.Local, rst |-> config.RST, rSet |-> FALSE,
                        ipt |-> useIpt] >>]

\* NewNFQueuePacketIO on config, in an environment env that says which of the
\* probes and kernel calls succeed
NewNFQueuePacketIOResult(config, env) ==
    LET useIpt == ~env.nftOk
        fail(ext, h, e) == [err |-> <<e>>, ext |-> ext, handle |-> h, n |-> << >>]
        e1 == <<"nftCheck">>
        e2 == e1 \o (IF useIpt THEN <<"iptables.New v4", "iptables.New v6">> ELSE << >>)
                 \o <<"nfqueue.Open">>
        e3 == e2 \o (IF config.ReadBuffer > 0 THEN <<"SetReadBuffer">> ELSE << >>)
        e4 == e3 \o (IF config.WriteBuffer > 0 THEN <<"SetWriteBuffer">> ELSE << >>)
    IN  IF useIpt /\ ~env.ipt4Ok THEN fail(e1 \o <<"iptables.New v4">>, handle, "iptables v4")
        ELSE IF useIpt /\ ~env.ipt6Ok
             THEN fail(e1 \o <<"iptables.New v4", "iptables.New v6">>, handle, "iptables v6")
        ELSE IF ~env.openOk THEN fail(e2, handle, "nfqueue.Open")
        ELSE IF config.ReadBuffer > 0 /\ ~env.rbOk
             THEN fail(e3 \o <<"Nfqueue.Close">>, "closed", "SetReadBuffer")
        ELSE IF config.WriteBuffer > 0 /\ ~env.wbOk
             THEN fail(e4 \o <<"Nfqueue.Close">>, "closed", "SetWriteBuffer")
        ELSE [err |-> << >>, ext |-> e4, handle |-> "open",
              n |-> << [local |-> config.Local, rst |-> config.RST, rSet |-> FALSE,
                        ipt |-> useIpt] >>]

Configs ==
    [QueueSize : {0, 64}, ReadBuffer : {0, 4096}, WriteBuffer : {0, 4096},
     Local : BOOLEAN, RST : BOOLEAN]

\* environments of NewNFQueuePacketIO: everything succeeds, with or without the nft
\* tool, or exactly one of the calls fails
EnvOk == [nftOk |-> TRUE, ipt4Ok |-> TRUE, ipt6Ok |-> TRUE, openOk |-> TRUE, rbOk |-> TRUE, wbOk |-> TRUE]

Envs ==
    {EnvOk, [EnvOk EXCEPT !.nftOk = FALSE],
     [EnvOk EXCEPT !.nftOk = FALSE, !.ipt4Ok = FALSE], [EnvOk EXCEPT !.nftOk = FALSE, !.ipt6Ok = FALSE],
     [EnvOk EXCEPT !.openOk = FALSE], [EnvOk EXCEPT !.nftOk = FALSE, !.openOk = FALSE],
     [EnvOk EXCEPT !.rbOk = FALSE], [EnvOk EXCEPT !.wbOk = FALSE]}

Range(seq) == {seq[i] : i \in 1..Len(seq)}

NoTabs == [f \in Families |-> << >>]

Init ==
    /\ n = << >>
    /\ handle = "none"
    /\ registered = FALSE
    /\ nft = << >>
    /\ ipt = NoTabs
    /\ pending = << >>
    /\ inq = {}
    /\ connmark = [c \in Conns |-> 0]
    /\ nextId = 1
    /\ held = {}
    /\ streamed = [c \in Conns |-> {}]
    /\ last = Trace("init", << >>)
    /\ reg = [t \in Callers |-> [pc |-> "idle", installs |-> 0]]

NewNFQueuePacketIO(config, env) ==
    /\ n = << >>
    /\ LET r == NewNFQueuePacketIOResult(config, env) IN
        /\ n' = r.n
        /\ handle' = r.handle
        /\ last' = [Trace("NewNFQueuePacketIO",
                          [config |-> config, env |-> env,
                           MaxQueueLen |-> IF config.QueueSize = 0 THEN nfqueueDefaultQueueSize
                                           ELSE config.QueueSize])
                        EXCEPT !.err = r.err, !.ext = r.ext]
    /\ UNCHANGED <<registered, nft, ipt, pending, inq, connmark, nextId, held, streamed, reg>>

\* the rule set-up of Register and Close on the session's backend; env says
\* which backend operations succeed
Setup(remove, env) ==
    IF n[1].ipt
    THEN LET r == setupIpt(ipt, n[1].local, n[1].rst, remove, env.failAt)
         IN  [err |-> r.err, ext |-> r.ext, nft |-> nft, ipt |-> r.tabs]
    ELSE LET r == setupNft(nft, n[1].local, n[1].rst, remove, env.addOk, env.delOk)
         IN  [err |-> r.err, ext |-> r.ext, nft |-> r.tables, ipt |-> ipt]

\* Register without the test of n.rSet: every successful registration installs
RegisterInstallsAlways(regOk, env) ==
    /\ n # << >>
    /\ handle = "open"
    /\ IF ~regOk
       THEN /\ last' = [Trace("Register", [regOk |-> FALSE, env |-> << >>]) EXCEPT
                            !.err = <<"RegisterWithErrorFunc">>, !.ext = <<"RegisterWithErrorFunc">>]
            /\ UNCHANGED <<n, registered, nft, ipt>>
       ELSE /\ registered' = TRUE
            /\ LET r == Setup(FALSE, env) IN
                    /\ nft' = r.nft
                    /\ ipt' = r.ipt
                    /\ n' = IF r.err = << >> THEN << [n[1] EXCEPT !.rSet = TRUE] >> ELSE n
                    /\ last' = [Trace("Register", [regOk |-> TRUE, env |-> <<env>>]) EXCEPT
                                    !.err = r.err, !.ext = <<"RegisterWithErrorFunc">> \o r.ext]
    /\ UNCHANGED <<handle, pending, inq, connmark, nextId, held, streamed, reg>>

Register(regOk, env) ==
    /\ n # << >>
    /\ handle = "open"
    /\ IF ~regOk
       THEN /\ last' = [Trace("Register", [regOk |-> FALSE, env |-> << >>]) EXCEPT
                            !.err = <<"RegisterWithErrorFunc">>, !.ext = <<"RegisterWithErrorFunc">>]
            /\ UNCHANGED <<n, registered, nft, ipt>>
       ELSE /\ registered' = TRUE
            /\ IF n[1].rSet
               THEN /\ last' = [Trace("Register", [regOk |-> TRUE, env |-> << >>]) EXCEPT
                                    !.ext = <<"RegisterWithErrorFunc">>]
                    /\ UNCHANGED <<n, nft, ipt>>
               ELSE LET r == Setup(FALSE, env) IN
                    /\ nft' = r.nft
                    /\ ipt' = r.ipt
                    /\ n' = IF r.err = << >> THEN << [n[1] EXCEPT !.rSet = TRUE] >> ELSE n
                    /\ last' = [Trace("Register", [regOk |-> TRUE, env |-> <<env>>]) EXCEPT
                                    !.err = r.err, !.ext = <<"RegisterWithErrorFunc">> \o r.ext]
    /\ UNCHANGED <<handle, pending, inq, connmark, nextId, held, streamed, reg>>

\* Close that returns the error of the rule removal instead of going on
CloseReturnsRemovalError(env, closeOk) ==
    /\ n # << >>
    /\ handle = "open"
    /\ LET r == IF n[1].rSet THEN Setup(TRUE, env)
                ELSE [err |-> << >>, ext |-> << >>, nft |-> nft, ipt |-> ipt]
       IN  /\ nft' = r.nft
           /\ ipt' = r.ipt
           /\ IF r.err # << >>
              THEN /\ last' = [Trace("Close", [env |-> IF n[1].rSet THEN <<env>> ELSE << >>,
                                              closeOk |-> closeOk]) EXCEPT
                                    !.err = r.err, !.ext = r.ext]
                   /\ UNCHANGED <<n, handle, registered, pending, inq>>
              ELSE /\ last' = [Trace("Close", [env |-> IF n[1].rSet THEN <<env>> ELSE << >>,
                                              closeOk |-> closeOk]) EXCEPT
                                    !.err = IF closeOk THEN << >> ELSE <<"Nfqueue.Close">>,
                                    !.ext = r.ext \o <<"Nfqueue.Close">>]
                   /\ n' = << [n[1] EXCEPT !.rSet = FALSE] >>
                   /\ handle' = "closed"
                   /\ registered' = FALSE
                   /\ pending' = << >>
                   /\ inq' = {}
    /\ UNCHANGED <<connmark, nextId, held, streamed, reg>>

Close(env, closeOk) ==
    /\ n # << >>
    /\ handle = "open"
    /\ LET r == IF n[1].rSet THEN Setup(TRUE, env)
                ELSE [err |-> << >>, ext |-> << >>, nft |-> nft, ipt |-> ipt]
       IN  /\ nft' = r.nft
           /\ ipt' = r.ipt
           /\ last' = [Trace("Close", [env |-> IF n[1].rSet THEN <<env>> ELSE << >>,
                                       closeOk |-> closeOk]) EXCEPT
                            !.err = IF closeOk THEN << >> ELSE <<"Nfqueue.Close">>,
                            !.ext = r.ext \o <<"Nfqueue.Close">>]
    /\ n' = << [n[1] EXCEPT !.rSet = FALSE] >>
    /\ handle' = "closed"
    /\ registered' = FALSE
    /\ pending' = << >>
    /\ inq' = {}
    /\ UNCHANGED <<connmark, nextId, held, streamed, reg>>

\* a cancellation that also tears the rule set down
CancelContextRemovesRules ==
    /\ registered
    /\ registered' = FALSE
    /\ pending' = << >>
    /\ inq' = {}
    /\ LET r == IF n[1].rSet THEN Setup(TRUE, [addOk |-> TRUE, delOk |-> TRUE, failAt |-> 0])
                ELSE [err |-> << >>, ext |-> << >>, nft |-> nft, ipt |-> ipt]
       IN  /\ nft' = r.nft
           /\ ipt' = r.ipt
           /\ n' = << [n[1] EXCEPT !.rSet = FALSE] >>
           /\ last' = [Trace("cancel", << >>) EXCEPT !.ext = r.ext]
    /\ UNCHANGED <<handle, connmark, nextId, held, streamed, reg>>

\* the context given to Register is cancelled: the receive loop ends and unbinds
\* the queue, and the kernel flushes the packets it still holds
CancelContext ==
    /\ registered
    /\ registered' = FALSE
    /\ pending' = << >>
    /\ inq' = {}
    /\ last' = Trace("cancel", << >>)
    /\ UNCHANGED <<n, handle, nft, ipt, connmark, nextId, held, streamed, reg>>

\* A packet of connection c (0: not tracked) traverses a netfilter hook and the
\* installed rules decide.  A packet queued to the queue the session is bound to
\* gets the next packet id and waits there for its verdict; without a bound queue
\* a bypass rule lets it pass.
Packet(hook, fam, proto, c) ==
    LET pkt  == [hook |-> hook, fam |-> fam, proto |-> proto,
                 mark |-> IF c = 0 THEN 0 ELSE connmark[c]]
        disp == Disposition(nft, ipt, pkt)
        toUs == disp.v = "queue" /\ registered /\ disp.q = ToString(nfqueueNum)
    IN  /\ c # 0 => (fam = ConnFamily(c) /\ proto = ConnProto(c))
        /\ toUs => nextId <= MaxPackets
        /\ last' = [Trace("packet", [pkt |-> pkt, conn |-> c]) EXCEPT
                        !.disp = disp, !.queued = toUs]
        /\ pending' = IF toUs
                      THEN [i \in DOMAIN pending \cup {nextId} |->
                                IF i = nextId THEN c ELSE pending[i]]
                      ELSE pending
        /\ inq' = IF toUs THEN inq \cup {nextId} ELSE inq
        /\ nextId' = IF toUs THEN nextId + 1 ELSE nextId
        /\ UNCHANGED <<n, handle, registered, nft, ipt, connmark, held, streamed, reg>>

\* payloads a queue event can carry: none, or a packet of that many bytes
Payloads == {<< >>, <<minIPPacketLen - 1>>, <<minIPPacketLen>>}

\* the attribute of the queue event of packet id
Attribute(id, hasId, payload) ==
    [PacketID |-> IF hasId THEN <<id>> ELSE << >>,
     Payload |-> payload,
     Ct |-> IF pending[id] = 0 THEN << >> ELSE <<CtBlob(pending[id])>>]

\* The event of queued packet id reaches the hook function.  A non-zero return
\* (or a crash) ends the receive loop, which unbinds the queue.
HookEvent(id, hasId, payload, cbRet) ==
    /\ registered
    /\ id \in inq
    /\ LET a == Attribute(id, hasId, payload)
           h == HookFunc(a, n[1].local, cbRet)
           goOn == h.ret = 0 /\ ~h.panic
       IN  /\ pending' = IF goOn THEN PendingAfter(h.kcalls) ELSE << >>
           /\ inq' = IF goOn THEN inq \ {id} ELSE {}
           /\ held' = held \cup {h.cb[k].pkt[1] : k \in 1..Len(h.cb)}
           /\ registered' = goOn
           /\ last' = [Trace("hook", [id |-> id, a |-> a]) EXCEPT
                            !.kcalls = h.kcalls, !.cb = h.cb, !.ret = h.ret, !.panic = h.panic]
    /\ UNCHANGED <<n, handle, nft, ipt, connmark, nextId, streamed, reg>>

\* the kernel transport reports error e to the session's error function
ErrorEvent(e, cbRet) ==
    /\ registered
    /\ LET h == ErrorFunc(e, cbRet) IN
        /\ registered' = (h.ret = 0)
        /\ pending' = IF h.ret = 0 THEN pending ELSE << >>
        /\ inq' = IF h.ret = 0 THEN inq ELSE {}
        /\ last' = [Trace("error", e) EXCEPT !.cb = h.cb, !.ret = h.ret]
    /\ UNCHANGED <<n, handle, nft, ipt, connmark, nextId, held, streamed, reg>>

\* a packet object of another Packet implementation
ForeignPackets == {[kind |-> "foreign", id |-> 1, streamID |-> 0, data |-> 0]}

\* replacement bytes a caller passes to SetVerdict: nil or a buffer of that length
NewPackets == {0, minIPPacketLen}

SetVerdict(p, v, newPacket) ==
    /\ n # << >>
    /\ LET calls == SetVerdictCalls(p, v, newPacket) IN
        /\ pending' = PendingAfter(calls)
        /\ connmark' = ConnmarkAfter(calls)
        /\ held' = IF calls = << >> THEN held ELSE held \ {p}
        /\ streamed' = [c \in Conns |->
                IF calls # << >> /\ KCallOk(calls[1]) /\ calls[1].mark # << >> /\ pending[calls[1].id] = c
                THEN streamed[c] \cup {v} ELSE streamed[c]]
        /\ last' = [Trace("SetVerdict", [p |-> p, v |-> v, newPacket |-> newPacket]) EXCEPT
                        !.kcalls = calls, !.err = SetVerdictErr(p, calls)]
    /\ UNCHANGED <<n, handle, registered, nft, ipt, inq, nextId, reg>>

\* outcomes of the backend operations of one set-up: all succeed, or the nft
\* tool fails and the iptables batch fails at its first operation
SetupOk == [addOk |-> TRUE, delOk |-> TRUE, failAt |-> 0]

SetupEnvs == {SetupOk, [addOk |-> FALSE, delOk |-> FALSE, failAt |-> 1]}

\* The session, its dispatcher and its verdicts, for IPv4 TCP packets.
Next ==
    \/ \E config \in Configs, env \in Envs : NewNFQueuePacketIO(config, env)
    \/ \E regOk \in BOOLEAN, env \in SetupEnvs : Register(regOk, env)
    \/ \E env \in SetupEnvs, closeOk \in BOOLEAN : Close(env, closeOk)
    \/ CancelContext
    \/ \E hook \in Hooks, c \in Conns \cup {0} : Packet(hook, "v4", "tcp", c)
    \/ \E id \in inq, hasId \in BOOLEAN, payload \in Payloads, cbRet \in BOOLEAN :
            HookEvent(id, hasId, payload, cbRet)
    \/ \E e \in TransportErrors, cbRet \in BOOLEAN : ErrorEvent(e, cbRet)
    \/ \E p \in held \cup ForeignPackets, v \in Verdicts \cup {VerdictOther}, newPacket \in NewPackets :
            SetVerdict(p, v, newPacket)

Spec == Init /\ [][Next]_vars

\* The installed rules and the connection marks, for packets of both families and
\* protocols at every hook: sessions that open and register without failures,
\* well-formed queue events, a callback that takes every packet.
NoBuffers == {c \in Configs : c.QueueSize = 0 /\ c.ReadBuffer = 0 /\ c.WriteBuffer = 0}

NextFw ==
    \/ \E config \in NoBuffers, env \in {EnvOk, [EnvOk EXCEPT !.nftOk = FALSE]} :
            NewNFQueuePacketIO(config, env)
    \/ Register(TRUE, SetupOk)
    \/ Close(SetupOk, TRUE)
    \/ \E hook \in Hooks, fam \in Families, proto \in Protos, c \in Conns \cup {0} :
            Packet(hook, fam, proto, c)
    \/ \E id \in inq : HookEvent(id, TRUE, <<minIPPacketLen>>, TRUE)
    \/ \E p \in held, v \in Verdicts : SetVerdict(p, v, 0)

SpecFw == Init /\ [][NextFw]_vars

-----------------------------------------------------------------------------
(* Register called by several goroutines at once.  The session has no lock: *)
(* the steps of the calls interleave, and with them the hook and error      *)
(* functions and SetVerdict.  Each rule set-up is taken as one step.        *)

\* goroutine t calls Register: RegisterWithErrorFunc
RegisterCall(t, regOk) ==
    /\ n # << >>
    /\ handle = "open"
    /\ reg[t].pc = "idle"
    /\ registered' = (registered \/ regOk)
    /\ reg' = [reg EXCEPT ![t].pc = IF regOk THEN "check" ELSE "done"]
    /\ last' = [Trace("Register.call", [t |-> t, regOk |-> regOk]) EXCEPT
                    !.err = IF regOk THEN << >> ELSE <<"RegisterWithErrorFunc">>,
                    !.ext = <<"RegisterWithErrorFunc">>]
    /\ UNCHANGED <<n, handle, nft, ipt, pending, inq, connmark, nextId, held, streamed>>

\* if !n.rSet: a plain read of the field.  A write of another goroutine is not
\* ordered before it, so the read can still give the old value (stale)
RegisterCheck(t, stale) ==
    /\ reg[t].pc = "check"
    /\ stale => n[1].rSet /\ \E u \in Callers \ {t} : reg[u].pc = "done" /\ reg[u].installs > 0
    /\ LET rSet == n[1].rSet /\ ~stale IN
        /\ reg' = [reg EXCEPT ![t].pc = IF rSet THEN "done" ELSE "setup"]
        /\ last' = Trace("Register.check", [t |-> t, rSet |-> rSet])
    /\ UNCHANGED <<n, handle, registered, nft, ipt, pending, inq, connmark, nextId, held, streamed>>

\* a set-up step that stays where it is when the set-up fails, to try again
RegisterSetupRetries(t, env) ==
    /\ reg[t].pc = "setup"
    /\ LET r == Setup(FALSE, env) IN
        /\ nft' = r.nft
        /\ ipt' = r.ipt
        /\ reg' = [reg EXCEPT ![t].pc = IF r.err = << >> THEN "set" ELSE "setup",
                              ![t].installs = @ + 1]
        /\ last' = [Trace("Register.setup", [t |-> t, env |-> <<env>>]) EXCEPT
                        !.err = r.err, !.ext = r.ext]
    /\ UNCHANGED <<n, handle, registered, pending, inq, connmark, nextId, held, streamed>>

\* setupIpt / setupNft of the call of goroutine t; an error ends the call
RegisterSetup(t, env) ==
    /\ reg[t].pc = "setup"
    /\ LET r == Setup(FALSE, env) IN
        /\ nft' = r.nft
        /\ ipt' = r.ipt
        /\ reg' = [reg EXCEPT ![t].pc = IF r.err = << >> THEN "set" ELSE "done",
                              ![t].installs = @ + 1]
        /\ last' = [Trace("Register.setup", [t |-> t, env |-> <<env>>]) EXCEPT
                        !.err = r.err, !.ext = r.ext]
    /\ UNCHANGED <<n, handle, registered, pending, inq, connmark, nextId, held, streamed>>

\* n.rSet = true, and the call returns
RegisterSet(t) ==
    /\ reg[t].pc = "set"
    /\ n' = << [n[1] EXCEPT !.rSet = TRUE] >>
    /\ reg' = [reg EXCEPT ![t].pc = "done"]
    /\ last' = Trace("Register.return", [t |-> t])
    /\ UNCHANGED <<handle, registered, nft, ipt, pending, inq, connmark, nextId, held, streamed>>

NextRace ==
    \/ \E config \in NoBuffers, env \in {EnvOk, [EnvOk EXCEPT !.nftOk = FALSE]} :
            NewNFQueuePacketIO(config, env)
    \/ \E t \in Callers, regOk \in BOOLEAN : RegisterCall(t, regOk)
    \/ \E t \in Callers, stale \in BOOLEAN : RegisterCheck(t, stale)
    \/ \E t \in Callers, env \in SetupEnvs : RegisterSetup(t, env)
    \/ \E t \in Callers : RegisterSet(t)
    \/ \E hook \in Hooks, c \in {0, 1} : Packet(hook, "v4", "tcp", c)
    \/ \E id \in inq, cbRet \in BOOLEAN : HookEvent(id, TRUE, <<minIPPacketLen>>, cbRet)
    \/ \E e \in TransportErrors : ErrorEvent(e, TRUE)
    \/ \E p \in held, v \in Verdicts : SetVerdict(p, v, 0)

SpecRace == Init /\ [][NextRace]_vars

-----------------------------------------------------------------------------
(* A session on a host whose firewall still holds what an earlier run of   *)
(* the program left there.  Every backend operation can fail.              *)

ValidPolicies == {p \in [local : BOOLEAN, rst : BOOLEAN] : ~(p.local /\ p.rst)}

\* the number of operations of the legacy batch for policy p
IptBatchOps(p) == 2 * Len(generateIptRules(p.local, p.rst).rules)

\* what a run on the legacy backend leaves: its install, complete or stopped by a
\* failing operation (then Register fails and Close removes nothing), or its
\* complete install after a removal that a failing operation stopped
IptLeftovers ==
    UNION {{setupIpt(NoTabs, p.local, p.rst, FALSE, k).tabs : k \in 0..IptBatchOps(p)}
            \cup {setupIpt(setupIpt(NoTabs, p.local, p.rst, FALSE, 0).tabs,
                           p.local, p.rst, TRUE, k).tabs : k \in 0..IptBatchOps(p)} :
           p \in ValidPolicies}

\* what a run on the declarative backend leaves: nothing, or its table
NftLeftovers ==
    {<< >>} \cup {setupNft(<< >>, p.local, p.rst, FALSE, TRUE, TRUE).tables : p \in ValidPolicies}

InitLife ==
    /\ n = << >>
    /\ handle = "none"
    /\ registered = FALSE
    /\ \/ nft \in NftLeftovers /\ ipt = NoTabs
       \/ nft = << >> /\ ipt \in IptLeftovers
    /\ pending = << >>
    /\ inq = {}
    /\ connmark = [c \in Conns |-> 0]
    /\ nextId = 1
    /\ held = {}
    /\ streamed = [c \in Conns |-> {}]
    /\ last = Trace("init", << >>)
    /\ reg = [t \in Callers |-> [pc |-> "idle", installs |-> 0]]

\* outcomes of the backend operations of one set-up: of the two nft commands, or
\* the operation of the iptables batch that fails
SetupOutcomes ==
    [addOk : BOOLEAN, delOk : BOOLEAN, failAt : {0}]
        \cup [addOk : {TRUE}, delOk : {TRUE}, failAt : 1..IptBatchOps([local |-> TRUE, rst |-> FALSE])]

\* the outcomes that can happen on the session's backend
SetupOutcomeFits(env) ==
    /\ n # << >>
    /\ IF n[1].ipt
       THEN env.addOk /\ env.delOk /\ env.failAt <= IptBatchOps(n[1])
       ELSE env.failAt = 0

NextLife ==
    \/ \E config \in NoBuffers, env \in {EnvOk, [EnvOk EXCEPT !.nftOk = FALSE]} :
            NewNFQueuePacketIO(config, env)
    \/ \E env \in SetupOutcomes : SetupOutcomeFits(env) /\ Register(TRUE, env)
    \/ \E env \in SetupOutcomes : SetupOutcomeFits(env) /\ Close(env, TRUE)

SpecLife == InitLife /\ [][NextLife]_vars

\* the same session on a firewall without leftovers
SpecClean == Init /\ [][NextLife]_vars

-----------------------------------------------------------------------------
(* Rule generation as a function of the policy, and the generated rule     *)
(* sets loaded into an otherwise empty firewall.                           *)

\* connection marks a packet's connection can carry: none, the two marks of the
\* session, a mark of some other program
Marks == {0, nfqueueConnMarkAccept, nfqueueConnMarkDrop, nfqueueConnMarkDrop + 1}

HookPackets == [hook : Hooks, fam : Families, proto : Protos, mark : Marks]

GenerateRules(local, rst) ==
    /\ last' = [op |-> "generate", ev |-> [local |-> local, rst |-> rst],
                nft |-> generateNftRules(local, rst), ipt |-> generateIptRules(local, rst)]
    /\ UNCHANGED <<n, handle, registered, nft, ipt, pending, inq, connmark, nextId, held, streamed, reg>>

\* the disposition of pkt under the nft rule set loaded with nft -f, and under the
\* iptables rule set appended to the iptables and the ip6tables filter table
EvaluateRules(local, rst, pkt) ==
    LET gn == generateNftRules(local, rst)
        gi == generateIptRules(local, rst)
    IN  /\ gn.err = << >>
        /\ gi.err = << >>
        /\ last' = [op |-> "evaluate", ev |-> [local |-> local, rst |-> rst, pkt |-> pkt],
                    nft |-> NftDisposition(nftAdd(<< >>, gn.table[1], TRUE).tables, pkt),
                    ipt |-> IptDisposition(iptsBatchAppendUnique(NoTabs, gi.rules, 0).tabs, pkt)]
        /\ UNCHANGED <<n, handle, registered, nft, ipt, pending, inq, connmark, nextId, held, streamed, reg>>

NextRules ==
    \/ \E local, rst \in BOOLEAN : GenerateRules(local, rst)
    \/ \E local, rst \in BOOLEAN, pkt \in HookPackets : EvaluateRules(local, rst, pkt)

SpecRules == Init /\ [][NextRules]_vars

-----------------------------------------------------------------------------
(* The decoder on byte sequences of every shape.                           *)

\* pieces of a blob: well-formed attributes (length, type, data, padding), and
\* pieces that are cut short or carry a wrong length
CtPieces ==
    {<<8, 0, 3, 0, 0, 0, 0, 14>>,           \* CTA_STATUS, 4 bytes
     <<8, 0, ctaID, 0, 0, 0, 1, 42>>,       \* CTA_ID, 4 bytes
     <<8, 0, ctaID, 0, 127, 0, 0, 1>>,      \* CTA_ID, 4 bytes, a large id
     <<12, 0, ctaID, 0, 1, 2, 3, 4, 5, 6, 7, 8>>,  \* CTA_ID, 8 bytes
     <<7, 0, ctaID, 0, 1, 2, 3, 0>>,        \* CTA_ID, 3 bytes and 1 of padding
     <<4, 0, ctaID, 0>>,                    \* CTA_ID, no data
     <<0, 0, ctaID, 0>>,                    \* length 0
     <<2, 0, ctaID, 0>>,                    \* length below the header's
     <<16, 0, ctaID, 0, 0, 0, 0, 7>>,       \* length beyond the end
     <<8, 0>>}                              \* half a header

\* the blobs of up to k pieces
RECURSIVE CtBlobsOf(_)
CtBlobsOf(k) ==
    IF k = 0 THEN {<< >>}
    ELSE LET shorter == CtBlobsOf(k - 1)
         IN  shorter \cup {b \o piece : b \in shorter, piece \in CtPieces}

InitDecode ==
    /\ n = << >>
    /\ handle = "none"
    /\ registered = FALSE
    /\ nft = << >>
    /\ ipt = NoTabs
    /\ pending = << >>
    /\ inq = {}
    /\ connmark = [c \in Conns |-> 0]
    /\ nextId = 1
    /\ held = {}
    /\ streamed = [c \in Conns |-> {}]
    /\ \E ct \in CtBlobsOf(MaxAttrs) : last = Trace("ct", ct)
    /\ reg = [t \in Callers |-> [pc |-> "idle", installs |-> 0]]

\* ctIDFromCtBytes on the blob
Decode ==
    /\ last.op = "ct"
    /\ LET r == ctIDFromCtBytes(last.ev)
       IN  last' = [Trace("ctIDFromCtBytes", last.ev) EXCEPT !.ret = r.id, !.panic = r.panic]
    /\ UNCHANGED <<n, handle, registered, nft, ipt, pending, inq, connmark, nextId, held, streamed, reg>>

NextDecode == Decode

SpecDecode == InitDecode /\ [][NextDecode]_vars

-----------------------------------------------------------------------------
(* Properties.                                                             *)

\* the attribute of the event the hook function handled last
HookAttr == last.ev.a

NoPacketID == HookAttr.PacketID = << >>

ShortPayload == HookAttr.Payload = << >> \/ HookAttr.Payload[1] < 20

NoCt == HookAttr.Ct = << >>

SyntheticVerdict(verdict) == <<KCall("SetVerdict", HookAttr.PacketID[1], verdict, << >>, << >>)>>

\* C1: every queue event ends in exactly one of three ways: without a packet id
\* no verdict and no callback; rejected by the classifier, its synthetic verdict
\* for that id and no callback; eligible, one callback with a packet of that id
\* and no verdict by the dispatcher.  Never a synthetic verdict and a callback.
C1_DispatchOutcome ==
    last.op = "hook" =>
        /\ NoPacketID => last.kcalls = << >> /\ last.cb = << >>
        /\ (~NoPacketID /\ (ShortPayload \/ NoCt)) =>
                /\ last.kcalls = SyntheticVerdict(IF ShortPayload THEN NfDrop
                                                  ELSE IF n[1].local THEN NfAccept ELSE NfDrop)
                /\ last.cb = << >>
        /\ (~NoPacketID /\ ~ShortPayload /\ ~NoCt) =>
                /\ last.kcalls = << >>
                /\ Len(last.cb) = 1
                /\ last.cb[1].err = << >>
                /\ Len(last.cb[1].pkt) = 1
                /\ last.cb[1].pkt[1].id = HookAttr.PacketID[1]
        /\ ~(last.kcalls # << >> /\ last.cb # << >>)

\* an eligible event was dispatched to the callback
C1_Witness ==
    /\ last.op = "hook"
    /\ ~NoPacketID /\ ~ShortPayload /\ ~NoCt
    /\ last.cb # << >>

\* C2 as stated: a short or missing payload always gets a kernel drop verdict and
\* no callback, whatever the other attributes of the event
C2_ShortAlwaysDropped ==
    (last.op = "hook" /\ ShortPayload) =>
        /\ Len(last.kcalls) = 1
        /\ last.kcalls[1].verdict = NfDrop
        /\ last.cb = << >>

\* C2 amended: an event with a packet id whose payload is missing or shorter than
\* 20 bytes gets the synthetic drop verdict for that id and no callback, in either
\* mode and with or without a connection-tracking attribute; a short event without
\* a packet id gets no verdict and no callback
C2_ShortWithIdDropped ==
    (last.op = "hook" /\ ShortPayload) =>
        /\ last.cb = << >>
        /\ last.kcalls = IF NoPacketID THEN << >> ELSE SyntheticVerdict(NfDrop)

\* a 19-byte packet with an id and a connection-tracking attribute was dropped in local mode
C2_Witness ==
    /\ last.op = "hook"
    /\ ~NoPacketID /\ ~NoCt
    /\ HookAttr.Payload = <<19>>
    /\ n[1].local
    /\ last.kcalls # << >>

\* C3 as stated: an event (with a packet id) without a connection-tracking
\* attribute always gets synthetic accept in local mode and synthetic drop in
\* forward mode, and no callback
C3_NoCtAlwaysByMode ==
    (last.op = "hook" /\ ~NoPacketID /\ NoCt) =>
        /\ last.kcalls = SyntheticVerdict(IF n[1].local THEN NfAccept ELSE NfDrop)
        /\ last.cb = << >>

\* C3 amended: an event with a packet id and a payload of at least 20 bytes that
\* lacks the connection-tracking attribute gets synthetic accept in local mode and
\* synthetic drop in forward mode, and no callback
C3_NoCtLongEnoughByMode ==
    (last.op = "hook" /\ ~NoPacketID /\ ~ShortPayload /\ NoCt) =>
        /\ last.kcalls = SyntheticVerdict(IF n[1].local THEN NfAccept ELSE NfDrop)
        /\ last.cb = << >>

\* an untracked 20-byte packet was accepted in local mode
C3_Witness ==
    /\ last.op = "hook"
    /\ ~NoPacketID /\ ~ShortPayload /\ NoCt
    /\ n[1].local
    /\ last.kcalls # << >> /\ last.kcalls[1].verdict = NfAccept

\* C4: SetVerdict on a packet of the session makes exactly the kernel call of the
\* verdict, for that packet's id: accept, accept with the replacement bytes, accept
\* with mark 1001, drop, drop with mark 1002; another verdict value makes no call
\* and returns no error
C4_VerdictCall ==
    (last.op = "SetVerdict" /\ last.ev.p.kind = "nfqueue") =>
        LET id == last.ev.p.id
            v  == last.ev.v
        IN  /\ v = "VerdictAccept" =>
                    last.kcalls = << [fn |-> "SetVerdict", id |-> id, verdict |-> NfAccept,
                                      mark |-> << >>, data |-> << >>] >>
            /\ v = "VerdictAcceptModify" =>
                    last.kcalls = << [fn |-> "SetVerdictModPacket", id |-> id, verdict |-> NfAccept,
                                      mark |-> << >>, data |-> <<last.ev.newPacket>>] >>
            /\ v = "VerdictAcceptStream" =>
                    last.kcalls = << [fn |-> "SetVerdictWithConnMark", id |-> id, verdict |-> NfAccept,
                                      mark |-> <<1001>>, data |-> << >>] >>
            /\ v = "VerdictDrop" =>
                    last.kcalls = << [fn |-> "SetVerdict", id |-> id, verdict |-> NfDrop,
                                      mark |-> << >>, data |-> << >>] >>
            /\ v = "VerdictDropStream" =>
                    last.kcalls = << [fn |-> "SetVerdictWithConnMark", id |-> id, verdict |-> NfDrop,
                                      mark |-> <<1002>>, data |-> << >>] >>
            /\ v \notin Verdicts => last.kcalls = << >> /\ last.err = << >>

\* DropStream on a queued packet wrote the drop mark to its connection
C4_Witness ==
    /\ last.op = "SetVerdict"
    /\ last.ev.p.kind = "nfqueue"
    /\ last.ev.v = "VerdictDropStream"
    /\ last.err = << >>
    /\ \E c \in Conns : connmark[c] = 1002

\* C5: SetVerdict on a packet object that is not one of the session's returns the
\* InvalidPacket error for every verdict, makes no kernel call and changes nothing
\* of the session or the queue
C5_ForeignPacketRejected ==
    [][(last'.op = "SetVerdict" /\ last'.ev.p.kind # "nfqueue") =>
            /\ last'.err = <<"ErrInvalidPacket: not an NFQueue packet">>
            /\ last'.kcalls = << >>
            /\ UNCHANGED <<n, handle, registered, nft, ipt, pending, inq, connmark,
                           nextId, held, streamed>>]_vars

\* a foreign packet was refused while a queued packet with the same id awaited its verdict
C5_Witness ==
    /\ last.op = "SetVerdict"
    /\ last.ev.p.kind = "foreign"
    /\ last.ev.v = "VerdictDropStream"
    /\ last.ev.p.id \in DOMAIN pending

\* C6: a transport error that is ENOBUFS inside a netlink OpError is swallowed (no
\* callback, the receive loop goes on); every other error goes to the callback
\* exactly once as (nil, error); the session makes no kernel or tool call on either
C6_TransportErrors ==
    last.op = "error" =>
        /\ IF last.ev.opErr /\ last.ev.errno = "ENOBUFS"
           THEN last.cb = << >> /\ last.ret = 0 /\ registered
           ELSE last.cb = << [pkt |-> << >>, err |-> <<last.ev>>] >>
        /\ last.kcalls = << >>
        /\ last.ext = << >>

\* an ENOBUFS that is not inside an OpError reached the callback
C6_Witness ==
    /\ last.op = "error"
    /\ ~last.ev.opErr /\ last.ev.errno = "ENOBUFS"
    /\ last.cb # << >>

\* C7: when the local+reset policy is rejected, the kernel queue handle has not
\* been opened, nothing is registered with the kernel transport and the operation
\* that reports it has made no external call
C7_RejectedBeforeAnyCall ==
    last.err = <<ErrRstLocal>> =>
        /\ handle = "none"
        /\ ~registered
        /\ last.ext = << >>

ChainNames(chains) == {chains[i].Chain : i \in 1..Len(chains)}

\* C8: for every policy but local+reset both generators succeed with rules for
\* exactly INPUT and OUTPUT (local) or exactly FORWARD (forward), no chain without
\* rules; for local+reset both return an error and no rule set
C8_RuleGeneration ==
    last.op = "generate" =>
        IF last.ev.local /\ last.ev.rst
        THEN /\ last.nft.err # << >> /\ last.nft.table = << >>
             /\ last.ipt.err # << >> /\ last.ipt.rules = << >>
        ELSE LET want == IF last.ev.local THEN {"INPUT", "OUTPUT"} ELSE {"FORWARD"}
                 chains == last.nft.table[1].Chains
             IN  /\ last.nft.err = << >> /\ Len(last.nft.table) = 1
                 /\ ChainNames(chains) = want
                 /\ {NftHookOf(chains[i]) : i \in 1..Len(chains)}
                        = (IF last.ev.local THEN {"input", "output"} ELSE {"forward"})
                 /\ \A i \in 1..Len(chains) : chains[i].Rules # << >>
                 /\ last.ipt.err = << >> /\ last.ipt.rules # << >>
                 /\ ChainNames(last.ipt.rules) = want

\* rules were generated for the local policy without reset
C8_Witness ==
    /\ last.op = "generate"
    /\ last.ev.local /\ ~last.ev.rst
    /\ Len(last.ipt.rules) = 6

\* hooks the session's rules are attached to
SessionHooks == IF n[1].local THEN {"input", "output"} ELSE {"forward"}

\* C9: with the rule set installed, a packet at one of the session's hooks whose
\* connection got DropStream is dropped (rejected with a reset if it is TCP and the
\* session is in reset mode) without being queued; one whose connection got
\* AcceptStream is accepted without being queued; a packet of a connection without
\* a stream verdict is queued to the session's queue with bypass
C9_StreamVerdictsFastPath ==
    (last.op = "packet" /\ n # << >> /\ n[1].rSet /\ last.ev.pkt.hook \in SessionHooks) =>
        LET c == last.ev.conn
            given == IF c = 0 THEN {} ELSE streamed[c]
        IN  /\ "VerdictDropStream" \in given =>
                    /\ ~last.queued
                    /\ last.disp.v = IF n[1].rst /\ last.ev.pkt.proto = "tcp" THEN "reject" ELSE "drop"
            /\ "VerdictAcceptStream" \in given => ~last.queued /\ last.disp.v = "accept"
            /\ given = {} =>
                    last.disp.v = "queue" /\ last.disp.bypass /\ last.disp.q = "100"

\* accept, reject, drop, or queue to a queue number with or without bypass
Class(d) ==
    IF d.v = "policy" THEN Disp("accept")
    ELSE d

\* C10: for every valid policy and every packet, the nftables rule set and the
\* iptables rule set (on iptables and ip6tables) decide the same disposition
C10_DialectsEquivalent ==
    last.op = "evaluate" => Class(last.nft) = Class(last.ipt)

-----------------------------------------------------------------------------
(* The rule set in the backends.                                           *)

\* how often rule r is in the filter table of one family
IptCount(rules, r) == Cardinality({i \in 1..Len(rules) : rules[i] = r})

\* how often the loaded rule (resolved tokens) is in chain name of the session's table
NftCount(tables, name, rule) ==
    IF \E t \in 1..Len(tables) :
            /\ tables[t].Family = nftFamily /\ tables[t].Table = nftTable
            /\ NftHasChain(tables[t].Chains, name)
    THEN LET t == CHOOSE t \in 1..Len(tables) :
                        tables[t].Family = nftFamily /\ tables[t].Table = nftTable
             c == CHOOSE c \in 1..Len(tables[t].Chains) : tables[t].Chains[c].Chain = name
             rs == tables[t].Chains[c].Rules
         IN  Cardinality({i \in 1..Len(rs) : rs[i] = rule})
    ELSE 0

\* for the policy of session s on its backend: how often each generated rule is
\* there (legacy: in each family), as the set of these numbers
RuleCounts(s) ==
    IF s.ipt
    THEN LET g == generateIptRules(s.local, s.rst) IN
         {IptCount(ipt[f], g.rules[i]) : f \in Families, i \in 1..Len(g.rules)}
    ELSE LET g == generateNftRules(s.local, s.rst) IN
         IF g.err # << >> THEN {}
         ELSE UNION {{NftCount(nft, g.table[1].Chains[c].Chain,
                               NftResolveRule(g.table[1].Chains[c].Rules[i], 1, g.table[1].Defines)) :
                            i \in 1..Len(g.table[1].Chains[c].Rules)} :
                        c \in 1..Len(g.table[1].Chains)}

AllPresent == \A k \in RuleCounts(n[1]) : k >= 1

NonePresent == \A k \in RuleCounts(n[1]) : k = 0

\* the tool calls of the declarative backend
NftCalls == {"nft delete table", "nft -f"}

\* the calls a Register or Close made after / before the call on the queue handle
ToolCalls(l) ==
    IF l.op = "Register" THEN SubSeq(l.ext, 2, Len(l.ext))
    ELSE IF l.op = "Close" /\ l.ext # << >> /\ l.ext[Len(l.ext)] = "Nfqueue.Close"
         THEN SubSeq(l.ext, 1, Len(l.ext) - 1)
    ELSE l.ext

\* whether an install of session s fails under the outcomes env of the backend
InstallFails(s, env) ==
    \/ s.local /\ s.rst
    \/ s.ipt /\ env.failAt \in 1..(2 * Len(generateIptRules(s.local, s.rst).rules))
    \/ ~s.ipt /\ ~env.addOk

\* C11: a Register call whose transport registration fails does not attempt the
\* install; a call on a session whose rules are installed registers and installs
\* nothing again; otherwise the install is attempted after the registration, sets
\* the flag exactly when it succeeds (all rules are then present), and when it
\* fails the flag stays false and Register returns the error
C11_InstallOnce ==
    [][last'.op = "Register" =>
        /\ last'.ext[1] = "RegisterWithErrorFunc"
        /\ ~last'.ev.regOk =>
                /\ ToolCalls(last') = << >> /\ last'.err # << >>
                /\ UNCHANGED <<n, nft, ipt>>
        /\ (last'.ev.regOk /\ n[1].rSet) =>
                /\ ToolCalls(last') = << >> /\ last'.err = << >>
                /\ UNCHANGED <<n, nft, ipt>>
        /\ (last'.ev.regOk /\ ~n[1].rSet) =>
                IF InstallFails(n[1], last'.ev.env[1])
                THEN last'.err # << >> /\ ~n'[1].rSet
                ELSE last'.err = << >> /\ n'[1].rSet /\ AllPresent' /\ ToolCalls(last') # << >>]_vars

\* a second Register on a session with its rules installed registered only
C11_Witness ==
    /\ last.op = "Register"
    /\ last.ev.regOk /\ last.ev.env = << >>
    /\ n[1].rSet /\ AllPresent
    /\ registered

\* C14: Close runs the rule removal on the session's backend exactly when the flag
\* is set, clears the flag and closes the handle as its last call; what it returns
\* is the result of closing the handle, never the removal's error; without
\* installed rules it makes no backend call and leaves the backends alone
C14_CloseRemoval ==
    [][last'.op = "Close" =>
        /\ (ToolCalls(last') # << >>) <=> n[1].rSet
        /\ last'.ext # << >> /\ last'.ext[Len(last'.ext)] = "Nfqueue.Close"
        /\ ~n'[1].rSet
        /\ handle' = "closed"
        /\ last'.err = IF last'.ev.closeOk THEN << >> ELSE <<"Nfqueue.Close">>
        /\ n[1].rSet => IF n[1].ipt THEN Range(ToolCalls(last')) \cap NftCalls = {}
                                   ELSE Range(ToolCalls(last')) \subseteq NftCalls
        /\ ~n[1].rSet => UNCHANGED <<nft, ipt>>]_vars

\* the removal failed, Close returned no error and the handle is closed
C14_Witness ==
    /\ last.op = "Close"
    /\ last.ev.env # << >> /\ ~last.ev.env[1].delOk
    /\ ~n[1].ipt /\ nft # << >>
    /\ last.err = << >>
    /\ handle = "closed"

\* C15: while the rules-installed flag is set, no step but Close changes the
\* backends or the session object: packets, queue events, transport errors,
\* verdicts, cancellation and further Register calls leave the rule set in place
C15_RulesStayUntilClose ==
    [][(n # << >> /\ n[1].rSet /\ last'.op # "Close") =>
            /\ UNCHANGED <<n, nft, ipt>>
            /\ AllPresent']_vars

\* the context was cancelled and the rule set is still installed
C15_Witness ==
    /\ last.op = "cancel"
    /\ ~registered
    /\ n[1].rSet /\ AllPresent
    /\ handle = "open"

\* C17: NewNFQueuePacketIO that fails returns no session, and either has opened no
\* handle or has closed the one it opened as its last call; one that succeeds returns a session on
\* an open handle whose backend is nftables if the nft tool was found and else
\* iptables, created for IPv4 and IPv6; the backend of a session never changes and
\* its Register and Close make calls on that backend only
C17_NoPartialSession ==
    [][/\ last'.op = "NewNFQueuePacketIO" =>
            LET env == last'.ev.env
                cfg == last'.ev.config
                opened == "nfqueue.Open" \in Range(last'.ext) /\ env.openOk
            IN  IF last'.err # << >>
                THEN /\ n' = << >>
                     /\ handle' = IF opened THEN "closed" ELSE handle
                     /\ handle' # "open"
                     /\ opened => last'.ext[Len(last'.ext)] = "Nfqueue.Close"
                ELSE /\ Len(n') = 1
                     /\ handle' = "open"
                     /\ n'[1].ipt = ~env.nftOk
                     /\ n'[1].ipt <=> {"iptables.New v4", "iptables.New v6"} \subseteq Range(last'.ext)
                     /\ "Nfqueue.Close" \notin Range(last'.ext)
       /\ (n # << >> /\ n' # << >>) => n'[1].ipt = n[1].ipt
       /\ last'.op \in {"Register", "Close"} =>
            IF n[1].ipt THEN Range(ToolCalls(last')) \cap NftCalls = {} /\ nft' = nft
            ELSE Range(ToolCalls(last')) \subseteq NftCalls /\ ipt' = ipt]_vars

\* setting the write buffer failed: no session, and the handle is closed
C17_Witness ==
    /\ last.op = "NewNFQueuePacketIO"
    /\ last.err = <<"SetWriteBuffer">>
    /\ n = << >>
    /\ handle = "closed"

\* a step of Register or Close that ran the set-up of the rules
SetupStep(l) == l.op \in {"Register", "Close"} /\ l.ev.env # << >>

\* C12: after an install that succeeded, whatever an earlier run left in the
\* backend, every generated rule is there exactly once (legacy: in each family)
C12_NoDuplicates ==
    (last.op = "Register" /\ SetupStep(last) /\ last.err = << >>) =>
        RuleCounts(n[1]) = {1}

\* C13 as stated: in every state of a session the rules generated for it are all
\* in its backend or none of them is
C13_AllOrNothing ==
    n # << >> => (AllPresent \/ NonePresent)

\* C13 amended: a set-up on the declarative backend, failing or not, leaves the
\* backend as it was, without any of the session's rules, or with all of them; a
\* set-up on the legacy backend in which no operation fails leaves all generated
\* rules in both families (install) or none in either (removal)
C13_AtomicUnlessLegacyFails ==
    [][SetupStep(last') =>
        IF n[1].ipt
        THEN last'.ev.env[1].failAt = 0 =>
                IF last'.op = "Register" THEN AllPresent' ELSE NonePresent'
        ELSE nft' = nft \/ NonePresent' \/ AllPresent']_vars

\* the removal of an installed local rule set from the legacy backend went through:
\* none of the rules is left in either family
C13_Witness ==
    /\ last.op = "Close" /\ SetupStep(last)
    /\ n[1].ipt /\ n[1].local
    /\ last.ev.env[1].failAt = 0
    /\ Len(ToolCalls(last)) = IptBatchOps(n[1])
    /\ ipt = NoTabs

\* C18: a legacy batch calls the backend for the generated rules in their order,
\* for each rule on IPv4 and then on IPv6; the failing call is the last one and
\* Register returns its error; the rules of the calls before it are applied and
\* stay, the others are as before; without a failure every generated rule is in
\* both families (install) or in neither (removal)
C18_LegacyBatch ==
    [][(SetupStep(last') /\ n[1].ipt /\ ~(n[1].local /\ n[1].rst)) =>
        LET g == generateIptRules(n[1].local, n[1].rst).rules
            remove == last'.op = "Close"
            k == last'.ev.env[1].failAt
            calls == ToolCalls(last')
            all == 2 * Len(g)
            done == IF k = 0 THEN all ELSE k - 1
            fam(j) == IF j % 2 = 1 THEN "v4" ELSE "v6"
            rule(j) == g[(j + 1) \div 2]
            in(f, r) == r \in Range(ipt[f])
            inAfter(f, r) == r \in Range(ipt'[f])
        IN  /\ Len(calls) = IF k = 0 THEN all ELSE k
            /\ \A j \in 1..Len(calls) : calls[j] = IptCall(remove, fam(j), rule(j))
            /\ ~remove => (last'.err # << >> <=> k # 0)
            /\ \A j \in 1..done : inAfter(fam(j), rule(j)) = ~remove
            /\ \A j \in (done + 1)..all : inAfter(fam(j), rule(j)) = in(fam(j), rule(j))
            /\ \A f \in Families : \A r \in Range(ipt[f]) \cup Range(ipt'[f]) :
                    r \notin Range(g) => IptCount(ipt'[f], r) = IptCount(ipt[f], r)
            /\ k = 0 => \A i \in 1..Len(g) : inAfter("v4", g[i]) = inAfter("v6", g[i])]_vars

\* an install on the clean legacy backend failed at its third operation: the first
\* rule is in both families, the second in neither
C18_Witness ==
    /\ last.op = "Register" /\ SetupStep(last)
    /\ n[1].ipt /\ ~n[1].local /\ n[1].rst
    /\ last.ev.env[1].failAt = 3
    /\ last.err # << >>
    /\ ipt = [f \in Families |-> <<generateIptRules(FALSE, TRUE).rules[1]>>]

\* C16: decoding any byte sequence ends normally; it returns 0 when the blob does
\* not parse or has no attribute of type 12, and else the first four data bytes of
\* the first such attribute as a big-endian number
C16_DecodeTotal ==
    last.op = "ctIDFromCtBytes" =>
        LET u == UnmarshalAttributes(last.ev, 1, << >>)
            ids == IF u.err THEN << >> ELSE SelectSeq(u.attrs, LAMBDA a : a.Type = 12)
        IN  /\ ~last.panic
            /\ ids = << >> => last.ret = 0
            /\ (ids # << >> /\ Len(ids[1].Data) >= 4) =>
                    last.ret = ids[1].Data[1] * 16777216 + ids[1].Data[2] * 65536
                                + ids[1].Data[3] * 256 + ids[1].Data[4]

\* what a rule does, given its disposition of every packet: accept exactly the
\* packets marked 1001, drop exactly those marked 1002, reject nothing but TCP
\* packets marked 1002, or queue everything to queue 100
KindOf(d) ==
    CASE \A pkt \in HookPackets : d[pkt].v = IF pkt.mark = 1001 THEN "accept" ELSE "continue"
            -> "accept-by-mark"
      [] \A pkt \in HookPackets : d[pkt].v = IF pkt.mark = 1002 THEN "drop" ELSE "continue"
            -> "drop-by-mark"
      [] /\ \E pkt \in HookPackets : d[pkt].v = "reject"
         /\ \A pkt \in HookPackets :
                /\ d[pkt].v \in {"reject", "continue"}
                /\ d[pkt].v = "reject" => pkt.mark = 1002 /\ pkt.proto = "tcp"
            -> "reset-by-mark"
      [] \A pkt \in HookPackets : d[pkt].v = "queue" /\ d[pkt].q = "100"
            -> "divert-to-queue"
      [] OTHER -> "other"

\* the kinds of the legacy rules generated for chain ch, in their order
IptKinds(rules, ch) ==
    LET own == SelectSeq(rules, LAMBDA r : r.Chain = ch)
    IN  [i \in 1..Len(own) |-> KindOf([pkt \in HookPackets |-> IptRule(own[i].RuleSpec, 1, pkt)])]

\* the kinds of the rule lines of a generated nftables chain, in their order
NftKinds(table, c) ==
    [i \in 1..Len(table.Chains[c].Rules) |->
        KindOf([pkt \in HookPackets |->
                    NftRule(NftResolveRule(table.Chains[c].Rules[i], 1, table.Defines), 1, pkt)])]

PolicySteps(rst) ==
    <<"accept-by-mark">> \o (IF rst THEN <<"reset-by-mark">> ELSE << >>)
        \o <<"drop-by-mark", "divert-to-queue">>

\* the legacy rules come chain after chain
IptChainByChain(rules) ==
    \A i, j, k \in 1..Len(rules) : (i < j /\ j < k /\ rules[i].Chain = rules[k].Chain)
                                        => rules[j].Chain = rules[i].Chain

\* C20 as stated: for every valid policy each chain gets four or five legacy rule
\* operations, in the order accept-by-mark, reset-by-mark (exactly in reset mode),
\* drop-by-mark, divert-to-queue, and the lines of each nftables chain are in the
\* same order
C20_FourOrFiveInOrder ==
    (last.op = "generate" /\ ~(last.ev.local /\ last.ev.rst)) =>
        /\ \A ch \in ChainNames(last.ipt.rules) :
                /\ IptKinds(last.ipt.rules, ch) = PolicySteps(last.ev.rst)
                /\ Len(IptKinds(last.ipt.rules, ch)) \in {4, 5}
        /\ \A c \in 1..Len(last.nft.table[1].Chains) :
                NftKinds(last.nft.table[1], c) = PolicySteps(last.ev.rst)

\* C20 amended: three or four legacy rule operations per chain (four exactly in
\* reset mode), chain after chain, in the order accept-by-mark, reset-by-mark
\* (exactly in reset mode), drop-by-mark, divert-to-queue; the lines of each
\* nftables chain are in the same order
C20_ThreeOrFourInOrder ==
    (last.op = "generate" /\ ~(last.ev.local /\ last.ev.rst)) =>
        /\ IptChainByChain(last.ipt.rules)
        /\ \A ch \in ChainNames(last.ipt.rules) :
                /\ IptKinds(last.ipt.rules, ch) = PolicySteps(last.ev.rst)
                /\ Len(IptKinds(last.ipt.rules, ch)) = IF last.ev.rst THEN 4 ELSE 3
        /\ \A c \in 1..Len(last.nft.table[1].Chains) :
                NftKinds(last.nft.table[1], c) = PolicySteps(last.ev.rst)

\* the rules of the forward policy with reset: four operations on FORWARD
C20_Witness ==
    /\ last.op = "generate"
    /\ ~last.ev.local /\ last.ev.rst
    /\ IptKinds(last.ipt.rules, "FORWARD")
            = <<"accept-by-mark", "reset-by-mark", "drop-by-mark", "divert-to-queue">>
    /\ Len(last.nft.table[1].Chains[1].Rules) = 4

\* the Register calls that have been made, and the installs they ran
RegisterCalls == {t \in Callers : reg[t].pc # "idle"}

RECURSIVE Installs(_)
Installs(ts) ==
    IF ts = {} THEN 0
    ELSE LET t == CHOOSE t \in ts : TRUE IN reg[t].installs + Installs(ts \ {t})

\* C19: a Register call runs the install at most once, and only a step of a
\* Register call that found the flag false runs it: packets, the hook and error
\* functions, SetVerdict and the other steps of Register leave the backends and
\* the count of installs alone; so with at most one Register call on the session
\* the install runs at most once, whatever is interleaved with it.  (With two
\* calls at once both can run it: the witness.)
C19_InstallPerCall ==
    [][/\ last'.op # "Register.setup" => UNCHANGED <<nft, ipt>> /\ Installs(Callers)' = Installs(Callers)
       /\ last'.op = "Register.setup" =>
            /\ reg[last'.ev.t].pc = "setup"
            /\ Installs(Callers)' = Installs(Callers) + 1
       /\ \A t \in Callers : reg'[t].installs <= 1
       /\ Cardinality(RegisterCalls') <= 1 => Installs(Callers)' <= 1]_vars

\* both calls found the flag false and both ran the install, the second one
\* before the first has set the flag
C19_Witness ==
    /\ last.op = "Register.setup"
    /\ \A t \in Callers : reg[t].installs = 1
    /\ ~n[1].rSet
    /\ last.err = << >>
    /\ \E t \in Callers : reg[t].pc = "set"

====
